---- MODULE Spec2Model ----
(***************************************************************************)
(* A model of the pygbasm two-pass assembler: the instruction pointer,     *)
(* the label table, the JR resolver, the node processor and the pass-1 /   *)
(* pass-2 driver.                                                          *)
(*                                                                         *)
(* Text is modelled as a sequence of one-character strings, so that the    *)
(* strip / upper / hex conversions of the source are computed rather than  *)
(* assumed.  Python's None is NoneInt where the code expects a number and  *)
(* NoLabel where it expects a Label.  An argument that the code passes     *)
(* either as text or as an integer is a PyStr or a PyInt value.            *)
(***************************************************************************)
EXTENDS Integers, Sequences, FiniteSets, TLC

NoneInt == -1

PyStr(s) == [kind |-> "str", int |-> 0, text |-> s]

PyInt(n) == [kind |-> "int", int |-> n, text |-> <<>>]

(***************************************************************************)
(* Bounds of the model.                                                    *)
(***************************************************************************)
MaxLines == 3          \* source lines handed to pass 1
MaxIpOps == 3          \* instruction-pointer operations in SpecIP
MaxLabelOps == 2       \* label-table operations in SpecLabels
MaxScopeLines == 4     \* label lines handed to pass 1 in SpecScopes
MaxDsSize == 1025      \* largest DS count handed to the storage parser
MaxJrDist == 131       \* largest |target - address| tried by SpecResolver

VARIABLES
    ip_pointer,        \* InstructionPointer._pointer
    ip_base,           \* InstructionPointer._section_base
    labels,            \* Labels._labels : cleaned upper-case key -> Label
    code,              \* Assembler.code
    new_code,          \* pass2's new_code list
    idx,               \* pass2's position in Assembler.code
    line_no,           \* number of line nodes pass1 has handed to process_node
    phase,             \* which part of the program is running
    ret,               \* value returned by the last operation called directly
    args,              \* the arguments of that operation
    nops               \* number of direct operations issued so far

vars == <<ip_pointer, ip_base, labels, code, new_code, idx, line_no, phase,
          ret, args, nops>>

(***************************************************************************)
(* Text helpers.                                                           *)
(***************************************************************************)
RECURSIVE LStrip(_, _)
LStrip(s, chars) ==
    IF s # <<>> /\ Head(s) \in chars THEN LStrip(Tail(s), chars) ELSE s

RECURSIVE RStrip(_, _)
RStrip(s, chars) ==
    IF s # <<>> /\ s[Len(s)] \in chars
    THEN RStrip(SubSeq(s, 1, Len(s) - 1), chars)
    ELSE s

UpperChar(c) ==
    CASE c = "a" -> "A"
      [] c = "b" -> "B"
      [] c = "c" -> "C"
      [] c = "d" -> "D"
      [] c = "e" -> "E"
      [] c = "f" -> "F"
      [] OTHER -> c

Upper(s) == [i \in 1..Len(s) |-> UpperChar(s[i])]

Count(s, c) == Cardinality({i \in 1..Len(s) : s[i] = c})

EndsWith(s, suffix) ==
    /\ Len(s) >= Len(suffix)
    /\ SubSeq(s, Len(s) - Len(suffix) + 1, Len(s)) = suffix

(***************************************************************************)
(* ExpressionConversion: decimal <-> "$" hexadecimal text.                 *)
(***************************************************************************)
HexChars == <<"0", "1", "2", "3", "4", "5", "6", "7",
              "8", "9", "a", "b", "c", "d", "e", "f">>

HexDigitValue(c) ==
    IF \E i \in 1..16 : UpperChar(HexChars[i]) = UpperChar(c)
    THEN (CHOOSE i \in 1..16 : UpperChar(HexChars[i]) = UpperChar(c)) - 1
    ELSE NoneInt

RECURSIVE Pow16(_)
Pow16(n) == IF n = 0 THEN 1 ELSE 16 * Pow16(n - 1)

\* hex(clean)[2:] : the shortest hexadecimal text of a non-negative integer
RECURSIVE HexText(_)
HexText(n) ==
    IF n < 16 THEN <<HexChars[n + 1]>>
    ELSE Append(HexText(n \div 16), HexChars[(n % 16) + 1])

RECURSIVE ZFill(_, _)
ZFill(s, width) == IF Len(s) >= width THEN s ELSE ZFill(<<"0">> \o s, width)

\* ExpressionConversion._dec_to_hex(val, digits)
dec_to_hex(val, digits) ==
    LET clean0 == IF val < 0 THEN 0 ELSE val
        digs   == IF clean0 > 255 THEN 4 ELSE digits
        clean  == IF clean0 >= Pow16(digs) THEN Pow16(digs) - 1 ELSE clean0
    IN  <<"$">> \o ZFill(HexText(clean), digs)

\* ExpressionConversion.expression_from_value(dec_value, prefix), for the
\* prefixes "$" and "$$"; a non-numeric value gives the empty text.
expression_from_value(dec_value, prefix) ==
    IF dec_value = NoneInt THEN <<>>
    ELSE IF prefix = "$" THEN dec_to_hex(dec_value, 2)
    ELSE IF prefix = "$$" THEN dec_to_hex(dec_value, 4)
    ELSE <<>>

RECURSIVE HexFold(_, _)
HexFold(s, acc) ==
    IF s = <<>> THEN acc
    ELSE HexFold(Tail(s), acc * 16 + HexDigitValue(Head(s)))

\* ExpressionConversion._hex_to_dec(val)
hex_to_dec(exp) ==
    LET val == Tail(exp)
    IN  IF Len(val) < 2 \/ Len(val) > 10 THEN NoneInt
        ELSE IF \E i \in 1..Len(val) : HexDigitValue(val[i]) = NoneInt
             THEN NoneInt
        ELSE HexFold(val, 0)

DecChars == <<"0", "1", "2", "3", "4", "5", "6", "7", "8", "9">>

DecDigitValue(c) ==
    IF \E i \in 1..10 : DecChars[i] = c
    THEN (CHOOSE i \in 1..10 : DecChars[i] = c) - 1
    ELSE NoneInt

RECURSIVE DecFold(_, _)
DecFold(s, acc) ==
    IF s = <<>> THEN acc
    ELSE DecFold(Tail(s), acc * 10 + DecDigitValue(Head(s)))

\* ExpressionConversion._dec(val)
dec(exp) ==
    LET val == Tail(exp)
    IN  IF Len(val) < 1 \/ Len(val) > 10 THEN NoneInt
        ELSE IF \E i \in 1..Len(val) : DecDigitValue(val[i]) = NoneInt
             THEN NoneInt
        ELSE DecFold(val, 0)

\* str(n) for a non-negative integer
RECURSIVE DecText(_)
DecText(n) ==
    IF n < 10 THEN <<DecChars[n + 1]>>
    ELSE Append(DecText(n \div 10), DecChars[(n % 10) + 1])

\* ExpressionConversion.value_from_expression(expression) for hexadecimal
\* and decimal text and for the integer 0: "not expression" holds of the
\* empty text and of 0, and text with a prefix that is no key of _to_dec
\* gives None.
value_from_expression(expression) ==
    CASE expression.kind = "int" /\ expression.int = 0 -> NoneInt
      [] expression.kind = "str" ->
            LET e == expression.text
            IN  IF e = <<>> THEN NoneInt
                ELSE IF DecDigitValue(Head(e)) \notin {NoneInt, 0}
                     THEN dec(<<"0">> \o e)
                ELSE IF Head(e) = "0" THEN dec(e)
                ELSE IF Head(e) = "$" THEN hex_to_dec(e)
                ELSE NoneInt

(***************************************************************************)
(* InstructionPointer.                                                     *)
(***************************************************************************)
AddressSpace == 65536

\* location setter: the new value of _pointer
location_set(pointer, value) ==
    IF value >= 0 /\ value < AddressSpace THEN value ELSE pointer

\* move_location_relative: <<new _pointer, return value>>
move_location_relative(pointer, val) ==
    LET newloc == pointer + val
    IN  IF AddressSpace > newloc /\ newloc >= 0
        THEN <<newloc, TRUE>>
        ELSE <<pointer, FALSE>>

\* a setter that moves the base and leaves the pointer where it is
base_address_set_base_only(base, pointer, new_value) ==
    LET address == value_from_expression(new_value)
    IN  IF address = NoneInt THEN <<base, pointer>> ELSE <<address, pointer>>

\* InstructionPointer.base_address (setter): <<new _section_base, new _pointer>>
base_address_set(base, pointer, new_value) ==
    LET address == value_from_expression(new_value)
    IN  IF address = NoneInt THEN <<base, pointer>> ELSE <<address, address>>

\* move_relative: <<new _pointer, return value>>
move_relative(pointer, relative) ==
    IF relative >= 0 /\ relative < 255
    THEN LET neg == relative \div 128
             displacement == IF neg # 0 THEN -((255 - relative) + 1)
                                        ELSE relative
         IN  IF pointer + displacement > 0
             THEN <<pointer + displacement, TRUE>>
             ELSE <<pointer, FALSE>>
    ELSE <<pointer, FALSE>>

offset_from_base(pointer, base) == pointer - base

(***************************************************************************)
(* Section types and their start addresses.                                *)
(***************************************************************************)
SectionTypes ==
    { <<"R", "O", "M", "0">>, <<"R", "O", "M", "X">>, <<"H", "R", "A", "M">>,
      <<"O", "A", "M">> }

\* SectionType._sections[t]['addr'][0]
SectionStart(t) ==
    CASE t = <<"R", "O", "M", "0">> -> 0
      [] t = <<"R", "O", "M", "X">> -> 16384
      [] t = <<"H", "R", "A", "M">> -> 65408
      [] t = <<"O", "A", "M">> -> 65024

\* SectionType._sections[t]['addr'][1]
SectionEnd(t) ==
    CASE t = <<"R", "O", "M", "0">> -> 16383
      [] t = <<"R", "O", "M", "X">> -> 32767
      [] t = <<"H", "R", "A", "M">> -> 65534
      [] t = <<"O", "A", "M">> -> 65183

(***************************************************************************)
(* Label and Labels.                                                       *)
(***************************************************************************)
Mnemonics ==
    { <<"N", "O", "P">>, <<"J", "R">>, <<"J", "P">>, <<"L", "D">>,
      <<"R", "L", "C">>, <<"S", "W", "A", "P">> }

RemoveChars(s, chars) == SelectSeq(s, LAMBDA c : c \notin chars)

\* Label._scope_and_validate(name): "LOCAL", "GLOBAL" or "None"
scope_and_validate(name) ==
    LET valid0 == Count(name, ".") <= 1
        colons == Count(name, ":")
        local  == colons = 1 /\ valid0 /\ EndsWith(name, <<":">>)
        global == colons = 2 /\ valid0 /\ EndsWith(name, <<":", ":">>)
        clean  == Upper(RemoveChars(name, {":", "."}))
        valid  == IF valid0 THEN clean \notin Mnemonics ELSE FALSE
    IN  IF global THEN "GLOBAL"
        ELSE IF local THEN "LOCAL"
        ELSE IF valid THEN "LOCAL"
        ELSE "None"

\* Label.__init__ raises ValueError for these names
LabelRaises(name) == name = <<>> \/ scope_and_validate(name) = "None"

\* Python's None where a Label is expected (no Label has an empty name)
NoLabel ==
    [name |-> <<>>, clean |-> <<>>, value |-> NoneInt, constant |-> FALSE,
     scope |-> "None", base |-> NoneInt]

\* Label(name, value, constant): the object's fields
Label(name, value, constant, base) ==
    [name     |-> name,
     clean    |-> RStrip(LStrip(name, {"."}), {":", ".", " "}),
     value    |-> value,
     constant |-> constant,
     scope    |-> scope_and_validate(name),
     base     |-> base]

\* a lookup that takes the key's letters as they are
Labels_getitem_exact(tbl, key) ==
    LET k == IF key # <<>>
             THEN RStrip(LStrip(key, {"."}), {":", "."})
             ELSE key
    IN  IF k \in DOMAIN tbl THEN tbl[k] ELSE NoLabel

\* Labels.__getitem__(key)
Labels_getitem(tbl, key) ==
    LET k == IF key # <<>>
             THEN Upper(RStrip(LStrip(key, {"."}), {":", "."}))
             ELSE key
    IN  IF k \in DOMAIN tbl THEN tbl[k] ELSE NoLabel

\* an add that drops the key it already holds
Labels_add_toggle(tbl, label) ==
    IF label # NoLabel /\ Upper(label.clean) \in DOMAIN tbl
    THEN [x \in (DOMAIN tbl) \ {Upper(label.clean)} |-> tbl[x]]
    ELSE IF label # NoLabel
    THEN [x \in (DOMAIN tbl) \cup {Upper(label.clean)} |->
             IF x = Upper(label.clean) THEN label ELSE tbl[x]]
    ELSE tbl

\* Labels.add(label): the new table
Labels_add(tbl, label) ==
    IF label # NoLabel
    THEN LET k == Upper(label.clean)
         IN  [x \in (DOMAIN tbl) \cup {k} |-> IF x = k THEN label ELSE tbl[x]]
    ELSE tbl

\* Labels.remove(label): the new table
Labels_remove(tbl, label) ==
    IF label # NoLabel /\ Labels_getitem(tbl, Upper(label.clean)) # NoLabel
    THEN [x \in (DOMAIN tbl) \ {Upper(label.clean)} |-> tbl[x]]
    ELSE tbl

EmptyTable == [x \in {} |-> NoLabel]

(***************************************************************************)
(* InstructionSet: the part of the nested operand map used by the model.   *)
(* A path of operand keys leads to the opcode stored under "!".            *)
(***************************************************************************)
T(str) ==
    CASE str = "NOP" -> <<"N", "O", "P">>
      [] str = "JR" -> <<"J", "R">>
      [] str = "JP" -> <<"J", "P">>
      [] str = "LD" -> <<"L", "D">>
      [] str = "NZ" -> <<"N", "Z">>
      [] str = "RLC" -> <<"R", "L", "C">>
      [] str = "SWAP" -> <<"S", "W", "A", "P">>
      [] str = "B" -> <<"B">>
      [] str = "A" -> <<"A">>
      [] str = "HL" -> <<"H", "L">>
      [] str = "r8" -> <<"r", "8">>
      [] str = "d8" -> <<"d", "8">>
      [] str = "a16" -> <<"a", "1", "6">>
      [] str = "d16" -> <<"d", "1", "6">>
      [] str = "DS" -> <<"D", "S">>
      [] str = "EQU" -> <<"E", "Q", "U">>
      [] str = "DB" -> <<"D", "B">>
      [] str = "DW" -> <<"D", "W">>
      [] str = "DL" -> <<"D", "L">>
      [] str = "SECTION" -> <<"S", "E", "C", "T", "I", "O", "N">>
      [] str = "ROM0" -> <<"R", "O", "M", "0">>
      [] str = "ROMX" -> <<"R", "O", "M", "X">>
      [] str = "HRAM" -> <<"H", "R", "A", "M">>
      [] str = "OAM" -> <<"O", "A", "M">>

InstructionPaths ==
    { <<T("NOP")>>,
      <<T("JR"), T("r8")>>,
      <<T("JR"), T("NZ"), T("r8")>>,
      <<T("JP"), T("a16")>>,
      <<T("LD"), T("A"), T("d8")>>,
      <<T("LD"), T("HL"), T("d16")>>,
      <<T("RLC"), T("B")>>,
      <<T("SWAP"), T("A")>> }

Opcode(path) ==
    CASE path = <<T("NOP")>> -> 0
      [] path = <<T("JR"), T("r8")>> -> 24
      [] path = <<T("JR"), T("NZ"), T("r8")>> -> 32
      [] path = <<T("JP"), T("a16")>> -> 195
      [] path = <<T("LD"), T("A"), T("d8")>> -> 62
      [] path = <<T("LD"), T("HL"), T("d16")>> -> 33
      [] path = <<T("RLC"), T("B")>> -> 51968
      [] path = <<T("SWAP"), T("A")>> -> 52023

IsPrefix(p, q) == Len(p) <= Len(q) /\ SubSeq(q, 1, Len(p)) = p

\* the keys of the roamer dict reached by path p ("!" excluded)
RoamerKeys(p) ==
    {q[Len(p) + 1] : q \in {r \in InstructionPaths :
                               IsPrefix(p, r) /\ Len(r) > Len(p)}}

\* "!" in roamer
RoamerHasLeaf(p) == p \in InstructionPaths

\* InstructionSet.is_mnemonic
is_mnemonic(text) == \E q \in InstructionPaths : q[1] = Upper(text)

\* Registers.is_valid_register
RegisterNames ==
    { <<"A">>, <<"B">>, <<"C">>, <<"D">>, <<"E">>, <<"H">>, <<"L">>,
      <<"B", "C">>, <<"D", "E">>, <<"H", "L">>, <<"S", "P">>,
      <<"A", "F">>, <<"P", "C">> }

is_valid_register(text) == text \in RegisterNames

Contains(s, sub) ==
    \E i \in 1..(Len(s) - Len(sub) + 1) : SubSeq(s, i, i + Len(sub) - 1) = sub

(***************************************************************************)
(* InstructionParser._parse and its helpers.  The parser state is the      *)
(* roamer (a path, or Dead for the emptied dict), the operand texts and    *)
(* errors recorded so far, the operand index and the operand bytes.        *)
(***************************************************************************)
Dead == << <<"{", "}">> >>

NoText == <<>>

ParseStart(mnemonic) ==
    [roamer |-> IF is_mnemonic(mnemonic) THEN <<mnemonic>> ELSE Dead,
     op     |-> <<NoText, NoText>>,
     err    |-> <<FALSE, FALSE>>,
     opidx  |-> 1,
     bytes  |-> <<>>,
     placeholder |-> NoText,
     unresolved  |-> NoText,
     stop   |-> FALSE]

\* _State.set_operand_to_val(val, err): operand slots beyond the second are
\* never read back by get_instruction_detail
SetOperand(st, val, iserr) ==
    [st EXCEPT
       !.op = IF st.opidx <= 2 THEN [@ EXCEPT ![st.opidx] = val] ELSE @,
       !.err = IF st.opidx <= 2 /\ iserr THEN [@ EXCEPT ![st.opidx] = TRUE]
               ELSE @,
       !.roamer = IF iserr THEN Dead ELSE @,
       !.opidx = @ + 1]

\* _State.roam_to_arg(arg), when arg is a key of the roamer
RoamTo(st, arg) ==
    [st EXCEPT
       !.roamer = Append(@, arg),
       !.op = IF st.opidx <= 2 THEN [@ EXCEPT ![st.opidx] = arg] ELSE @]

\* InstructionParser._int_to_z80binary(dec_val, bits)
int_to_z80binary(dec_val, bits) ==
    IF dec_val < 0 \/ dec_val > 65535 THEN <<>>
    ELSE IF bits = 16 THEN <<dec_val % 256, dec_val \div 256>>
    ELSE <<dec_val % 256>>

\* InstructionParser._ph_in_list(keys, parens=False): the placeholder key
\* of the roamer, or NoText
ph_in_list(keys) ==
    LET k8  == {k \in keys : Contains(k, <<"8">>)}
        k16 == {k \in keys : Contains(k, <<"1", "6">>)}
        key == IF k8 # {} THEN CHOOSE k \in k8 : TRUE
               ELSE IF k16 # {} THEN CHOOSE k \in k16 : TRUE
               ELSE NoText
    IN  IF key # NoText /\
           \E r \in {T("r8"), <<"a", "8">>, T("d8"), T("a16"), T("d16")} :
               Contains(key, r)
        THEN key ELSE NoText

Letters ==
    {"a", "b", "c", "d", "e", "f", "A", "B", "C", "D", "E", "F", "G", "H",
     "J", "L", "N", "O", "P", "R", "S", "X", "Z"}

Digits == {"0", "1", "2", "3", "4", "5", "6", "7", "8", "9"}

\* valid_label_first_char(): string.ascii_letters + "."
valid_label_first_char(c) == c \in Letters \cup {"."}

\* name_valid_label_chars(line)
name_valid_label_chars(line) ==
    \A i \in 1..Len(line) : line[i] \in Letters \cup Digits \cup {".", ":", "_"}

\* InstructionParser._if_number for an operand without parentheses:
\* <<new state, return value>>
if_number(st, arg) ==
    LET dec_val == value_from_expression(PyStr(arg))
    IN  IF dec_val # NoneInt /\ dec_val # 0
        THEN LET placeholder == ph_in_list(RoamerKeys(st.roamer))
             IN  IF placeholder # NoText
                 THEN LET bits == IF Contains(placeholder, <<"8">>)
                                  THEN 8 ELSE 16
                          st1 == [st EXCEPT !.bytes =
                                     @ \o int_to_z80binary(dec_val, bits)]
                      IN  << [RoamTo(st1, placeholder)
                                 EXCEPT !.placeholder = placeholder], TRUE >>
                 ELSE <<st, FALSE>>
        ELSE <<SetOperand(st, arg, TRUE), FALSE>>

\* one iteration of the operand loop of _parse
ParseOperand(st, arg) ==
    IF is_valid_register(arg)
    THEN IF arg \in RoamerKeys(st.roamer)
         THEN SetOperand(RoamTo(st, arg), arg, FALSE)
         ELSE [SetOperand(st, arg, TRUE) EXCEPT !.stop = TRUE]
    ELSE IF arg \in RoamerKeys(st.roamer)
    THEN SetOperand(RoamTo(st, arg), arg, FALSE)
    ELSE LET res == if_number(st, arg)
         IN  IF res[2] THEN res[1]
             ELSE IF valid_label_first_char(arg[1]) /\ name_valid_label_chars(arg)
                  THEN [res[1] EXCEPT !.unresolved = arg]
                  ELSE res[1]

RECURSIVE ParseLoop(_, _)
ParseLoop(st, operands) ==
    IF operands = <<>> \/ st.stop THEN st
    ELSE ParseLoop(ParseOperand(st, Head(operands)), Tail(operands))

\* a list of bytes in the opposite order
RECURSIVE Reversed(_)
Reversed(s) == IF s = <<>> THEN <<>> ELSE Append(Reversed(Tail(s)), Head(s))

\* self.state.prepend_bytes(self._int_to_z80binary(dec_val)): the bits
\* parameter keeps its default 8, and each byte is inserted at index 0
prepend_opcode(dec_val, ins_bytes) ==
    Reversed(int_to_z80binary(dec_val, 8)) \o ins_bytes

\* InstructionParser._parse(tokens) seen through LexerResults: the failure
\* dict built from the mnemonic is overwritten by get_instruction_detail(None),
\* so a failed parse has no mnemonic
parse_result(mnemonic, st) ==
    [mnemonic |-> IF RoamerHasLeaf(st.roamer) THEN mnemonic ELSE NoText,
     bytes    |-> IF RoamerHasLeaf(st.roamer)
                  THEN prepend_opcode(Opcode(st.roamer), st.bytes)
                  ELSE st.bytes,
     operand1 |-> st.op[1],
     operand2 |-> st.op[2],
     operand1_error |-> st.err[1],
     operand2_error |-> st.err[2],
     placeholder |-> st.placeholder,
     unresolved  |-> st.unresolved]

parse(tokens) ==
    parse_result(Head(tokens), ParseLoop(ParseStart(Head(tokens)), Tail(tokens)))

\* LexerResults.is_valid (no mnemonic_error is ever recorded by _parse)
lex_is_valid(lex) == ~lex.operand1_error /\ ~lex.operand2_error

\* Instruction.from_string(text): the lexer upper-cases the line
from_string(tokens) == parse([i \in 1..Len(tokens) |-> Upper(tokens[i])])

(***************************************************************************)
(* Resolver: compute_relative, twos_comp, ones_comp, op_jr and             *)
(* resolve_instruction.                                                    *)
(***************************************************************************)
Abs(n) == IF n < 0 THEN -n ELSE n

\* operator.xor on non-negative integers
RECURSIVE Xor(_, _)
Xor(a, b) ==
    IF a = 0 /\ b = 0 THEN 0
    ELSE 2 * Xor(a \div 2, b \div 2) + (((a % 2) + (b % 2)) % 2)

ones_comp(val) == IF val < 0 THEN Xor(Abs(val), 255) ELSE val

twos_comp(val) == IF val < 0 THEN Abs(ones_comp(val)) + 1 ELSE val

compute_relative(curr, base) ==
    LET rel == IF curr > base THEN base - curr ELSE curr - base
    IN  IF rel < -128 \/ rel > 127 THEN NoneInt
        ELSE IF rel < 0 THEN twos_comp(rel)
        ELSE rel

Strip(s, chars) == RStrip(LStrip(s, chars), chars)

format_with_parens(val, parens) ==
    IF parens THEN <<"(">> \o val \o <<")">> ELSE val

\* maybe_label(text)
maybe_label(tbl, text) == Labels_getitem(tbl, text)

\* the LexerResults of an item that holds no instruction
NoLex ==
    [mnemonic |-> NoText, bytes |-> <<>>, operand1 |-> NoText,
     operand2 |-> NoText, operand1_error |-> FALSE, operand2_error |-> FALSE,
     placeholder |-> NoText, unresolved |-> NoText]

\* what a resolver handler gives back: an Instruction, None, or an exception
Resolved(ins, label) == [status |-> "Instruction", ins |-> ins, label |-> label]

ResolvedNone == [status |-> "None", ins |-> NoLex, label |-> NoLabel]

ResolvedRaises(exc) == [status |-> exc, ins |-> NoLex, label |-> NoLabel]

CondCodes == { <<"N", "Z">>, <<"Z">>, <<"N", "C">>, <<"C">> }

\* the operand1 branch of op_jr for an operand in error: a label
op_jr_label1(label, location, paren1) ==
    IF label = NoLabel THEN [ok |-> FALSE, arg |-> NoText, label |-> NoLabel]
    ELSE [ok |-> TRUE,
          arg |-> format_with_parens(
                     expression_from_value(
                         compute_relative(location, label.value), "$"),
                     paren1),
          label |-> label]

\* the operand1 branch of op_jr for a number
op_jr_value1(val) ==
    IF val # NoneInt /\ val # 0
    THEN [ok |-> TRUE, arg |-> DecText(val), label |-> NoLabel]
    ELSE [ok |-> FALSE, arg |-> NoText, label |-> NoLabel]

\* the first half of op_jr: the text for operand1, or why there is none
op_jr_clean1(lex, location, tbl, clean1) ==
    IF lex.operand1_error
    THEN op_jr_label1(maybe_label(tbl, clean1), location,
                      Len(clean1) < Len(lex.operand1))
    ELSE IF lex.operand1 \in CondCodes
    THEN [ok |-> TRUE, arg |-> lex.operand1, label |-> NoLabel]
    ELSE op_jr_value1(value_from_expression(PyStr(clean1)))

op_jr_arg1(lex, location, tbl) ==
    op_jr_clean1(lex, location, tbl, Strip(lex.operand1, {"(", ")"}))

\* the "JR NZ, 0x??" adjustment of op_jr
jr_adjust(rel) == IF rel > 128 THEN rel - 2 ELSE rel + 2

\* the operand2 branch of op_jr for an operand in error: a label at rel
op_jr_label2(label, rel, paren2) ==
    IF label = NoLabel
    THEN [ok |-> FALSE, exc |-> "", has |-> FALSE, arg |-> NoText,
          label |-> NoLabel]
    ELSE IF rel = NoneInt
    THEN [ok |-> FALSE, exc |-> "TypeError", has |-> FALSE,
          arg |-> NoText, label |-> NoLabel]
    ELSE [ok |-> TRUE, exc |-> "", has |-> TRUE,
          arg |-> format_with_parens(
                     expression_from_value(jr_adjust(rel), "$"), paren2),
          label |-> label]

\* the operand2 branch of op_jr for a number
op_jr_value2(val, paren2) ==
    IF val # NoneInt /\ val # 0
    THEN [ok |-> TRUE, exc |-> "", has |-> TRUE,
          arg |-> format_with_parens(DecText(val), paren2),
          label |-> NoLabel]
    ELSE [ok |-> FALSE, exc |-> "", has |-> FALSE,
          arg |-> NoText, label |-> NoLabel]

op_jr_found2(label, location, paren2) ==
    op_jr_label2(label,
                 IF label = NoLabel THEN NoneInt
                 ELSE compute_relative(location, label.value),
                 paren2)

\* the second half of op_jr: the text for operand2
op_jr_clean2(lex, location, tbl, clean2) ==
    IF lex.operand2_error
    THEN op_jr_found2(maybe_label(tbl, clean2), location,
                      Len(clean2) < Len(lex.operand2))
    ELSE IF lex.operand2 # NoText
    THEN op_jr_value2(value_from_expression(PyStr(clean2)),
                      Len(clean2) < Len(lex.operand2))
    ELSE [ok |-> TRUE, exc |-> "", has |-> FALSE, arg |-> NoText,
          label |-> NoLabel]

op_jr_arg2(lex, location, tbl) ==
    op_jr_clean2(lex, location, tbl, Strip(lex.operand2, {"(", ")"}))

\* the words of a line: empty texts vanish when the lexer splits it
Words(texts) == SelectSeq(texts, LAMBDA t : t # NoText)

\* the tail of op_jr: Instruction.from_string on the rebuilt line
op_jr_build(a1, a2) ==
    IF ~a1.ok THEN ResolvedNone
    ELSE IF a2.exc # "" THEN ResolvedRaises(a2.exc)
    ELSE IF ~a2.ok THEN ResolvedNone
    ELSE Resolved(from_string(Words(<<T("JR"), a1.arg, a2.arg>>)),
                  IF a2.label # NoLabel THEN a2.label ELSE a1.label)

\* op_jr(lex), reading IP().location and Labels()
op_jr(lex, location, tbl) ==
    IF lex.operand1 = NoText THEN ResolvedRaises("AttributeError")
    ELSE op_jr_build(op_jr_arg1(lex, location, tbl),
                     op_jr_arg2(lex, location, tbl))

\* op_add, op_call, op_jp and op_ldh return None
JumpTable == {T("JR"), T("JP")}

\* Resolver.resolve_instruction(instruction, current_address): a failed
\* handler's None is returned as it is ("resolved if not None")
resolve_instruction(lex, current_address, location, tbl) ==
    IF current_address < 0 \/ current_address > 65535
    THEN Resolved(lex, NoLabel)
    ELSE IF lex.mnemonic \notin JumpTable THEN Resolved(lex, NoLabel)
    ELSE IF lex.mnemonic = T("JR") THEN op_jr(lex, location, tbl)
    ELSE ResolvedNone

(***************************************************************************)
(* Line nodes, as BasicLexer._tokenize_line builds them.  A node has a     *)
(* directive, the label text of a LABEL or MULTIPLE node, and a body: the  *)
(* directive and token list of the line (of its second part, for a         *)
(* MULTIPLE node).                                                         *)
(***************************************************************************)
Body(dir, toks) == [dir |-> dir, toks |-> toks]

Node(dir, label, body) == [dir |-> dir, label |-> label, body |-> body]

Simple(body) == Node(body.dir, NoText, body)

LabelNode(text) == Node("LABEL", text, Body("LABEL", <<text>>))

Compound(text, body) == Node("MULTIPLE", text, body)

LabelA == <<".", "A", ":">>

LabelB == <<"B", ":">>

LabelC == <<"C", ":">>

SectionRomx == Body("SECTION", <<T("SECTION"), <<"X">>, T("ROMX")>>)

SectionRom0 == Body("SECTION", <<T("SECTION"), <<"Z">>, T("ROM0")>>)

SectionHram == Body("SECTION", <<T("SECTION"), <<"H">>, T("HRAM")>>)

SectionShort == Body("SECTION", <<T("SECTION"), <<"X">>>>)

InsNop == Body("INSTRUCTION", <<T("NOP")>>)

InsJp == Body("INSTRUCTION", <<T("JP"), <<"$", "1", "2", "3", "4">>>>)

InsJrNzA == Body("INSTRUCTION", <<T("JR"), T("NZ"), <<".", "A">>>>)

StoDs2 == Body("STORAGE", <<T("DS"), <<"$", "0", "2">>>>)

StoDs128 == Body("STORAGE", <<T("DS"), <<"$", "8", "0">>>>)

Unknown == Body("UNKNOWN", << <<"$", "1", "0">> >>)

NameEA == <<"E", "A">>

EquTen == Body("EQU", <<T("EQU"), <<"$", "1", "0">>>>)

EquTwenty == Body("EQU", <<T("EQU"), <<"$", "2", "0">>>>)

EquZero == Body("EQU", <<T("EQU"), <<"$", "0", "0">>>>)

LineNodes ==
    { Simple(SectionRomx), Simple(SectionHram), Simple(SectionShort),
      LabelNode(LabelA), Simple(InsNop), Simple(InsJp), Simple(InsJrNzA),
      Compound(LabelB, StoDs128), Compound(LabelB, InsNop),
      Compound(LabelA, Unknown), Simple(StoDs2),
      Compound(NameEA, EquTen), Compound(NameEA, EquTwenty),
      Compound(NameEA, EquZero), Simple(Unknown), Simple(SectionRom0) }

(***************************************************************************)
(* CodeNode and the NodeProcessor.                                         *)
(***************************************************************************)
CodeNode(type, node, lex, label, len, offset, line, error) ==
    [type |-> type, node |-> node, lex |-> lex, label |-> label,
     len |-> len, offset |-> offset, line |-> line, error |-> error]

\* what a process_* method leaves behind: the code nodes it returns, the
\* instruction pointer, the label table, and the exception it ended in
Outcome(items, pointer, base, tbl, exc) ==
    [items |-> items, pointer |-> pointer, base |-> base, tbl |-> tbl,
     exc |-> exc]

\* the INST code node of process_INSTRUCTION and the move of the IP by
\* len(ins.machine_code())
instruction_item(node, lex, label, pointer, base, tbl, line) ==
    Outcome(<<CodeNode("INST", node, lex, label, Len(lex.bytes),
                       offset_from_base(pointer, base), line, "")>>,
            move_relative(pointer, Len(lex.bytes))[1], base, tbl, "")

\* process_INSTRUCTION once the resolver has answered with ins2
instruction_resolved(node, ins2, pointer, base, tbl, line) ==
    IF ins2.status \notin {"Instruction", "None"}
    THEN Outcome(<<>>, pointer, base, tbl, ins2.status)
    ELSE IF ins2.status = "Instruction" /\ lex_is_valid(ins2.ins)
    THEN instruction_item(node, ins2.ins, ins2.label, pointer, base, tbl, line)
    ELSE Outcome(<<CodeNode("NODE", node, NoLex, NoLabel, 0,
                            offset_from_base(pointer, base), line, "")>>,
                 pointer, base, tbl, "")

\* process_INSTRUCTION once the node is parsed
instruction_parsed(node, lex, pointer, base, tbl, line) ==
    IF lex_is_valid(lex)
    THEN instruction_item(node, lex, NoLabel, pointer, base, tbl, line)
    ELSE instruction_resolved(node,
                              resolve_instruction(lex, pointer, pointer, tbl),
                              pointer, base, tbl, line)

\* NodeProcessor.process_INSTRUCTION(node)
process_INSTRUCTION(node, pointer, base, tbl, line) ==
    instruction_parsed(node, parse(node.body.toks), pointer, base, tbl, line)

\* NodeProcessor.process_LABEL(node): the LBL code node, or <<>> for None
process_LABEL(node, pointer, base, tbl, line) ==
    LET clean    == Strip(node.label, {"(", ")"})
        existing == Labels_getitem(tbl, clean)
    IN  IF existing # NoLabel THEN Outcome(<<>>, pointer, base, tbl, "")
        ELSE IF LabelRaises(clean)
        THEN Outcome(<<>>, pointer, base, tbl, "ValueError")
        ELSE Outcome(<<CodeNode("LBL", node, NoLex,
                                Label(clean, pointer, FALSE, base), 0,
                                offset_from_base(pointer, base), line, "")>>,
                     pointer, base, tbl, "")

\* the SEC code node of process_node and the IP after the base_address setter
section_item(node, ip, tbl, line) ==
    Outcome(<<CodeNode("SEC", node, NoLex, NoLabel, 0, 0, line, "")>>,
            ip[2], ip[1], tbl, "")

\* NodeProcessor.process_SECTION(tokens) and the SECTION branch of
\* process_node: an error NODE where process_SECTION returns None
process_SECTION(node, pointer, base, tbl, line) ==
    IF Len(node.body.toks) < 3
    THEN Outcome(<<CodeNode("NODE", node, NoLex, NoLabel, 0, 0, line,
                            "INVALID_SECTION_POSITION")>>,
                 pointer, base, tbl, "")
    ELSE IF node.body.toks[3] \notin SectionTypes
    THEN Outcome(<<>>, pointer, base, tbl, "SectionTypeError")
    ELSE section_item(node,
             base_address_set(base, pointer,
                 PyStr(expression_from_value(SectionStart(node.body.toks[3]),
                                             "$$"))),
             tbl, line)

\* StorageParser._to_space(components) and __len__: the number of bytes of a
\* DS declaration of this size and value, or NoneInt where Python raises
to_space(size, value) ==
    IF value < 0 \/ value >= 256 THEN NoneInt
    ELSE IF size = NoneInt \/ size = 0 THEN NoneInt
    ELSE size

storage_len(toks) ==
    to_space(IF Len(toks) >= 2 THEN value_from_expression(PyStr(toks[2]))
             ELSE 1,
             IF Len(toks) >= 3 THEN value_from_expression(PyStr(toks[3]))
             ELSE 0)

\* the STOR code node of process_STORAGE
storage_item(node, len, pointer, base, tbl, line) ==
    IF len = NoneInt
    THEN Outcome(<<>>, pointer, base, tbl, "DefineDataError")
    ELSE Outcome(<<CodeNode("STOR", node, NoLex, NoLabel, len,
                            offset_from_base(pointer, base), line, "")>>,
                 pointer, base, tbl, "")

\* NodeProcessor.process_STORAGE(node)
process_STORAGE(node, pointer, base, tbl, line) ==
    storage_item(node, storage_len(node.body.toks), pointer, base, tbl, line)

\* _EquateParser.validate once the value of the EQU is converted: the Label,
\* NoLabel for None, or the exception of Label.__init__
equate_label(name, val, base) ==
    IF val = NoneInt \/ val = 0 THEN [exc |-> "", label |-> NoLabel]
    ELSE IF LabelRaises(name) THEN [exc |-> "ValueError", label |-> NoLabel]
    ELSE [exc |-> "", label |-> Label(name, val, TRUE, base)]

\* Equate(tokens).parse(): _EquateParser.validate
Equate_validate(node, base) ==
    IF Len(node.body.toks) < 2
    THEN [exc |-> "IndexError", label |-> NoLabel]
    ELSE IF \E i \in 1..Len(node.label) : node.label[i] \notin Letters \cup {"_"}
    THEN [exc |-> "", label |-> NoLabel]
    ELSE equate_label(node.label,
                      value_from_expression(PyStr(node.body.toks[2])), base)

\* process_EQU once the equate is parsed: Label(result.name(), result.value(),
\* constant=True) raises ValueError for the name None; Labels().add(lbl) and
\* the EQU code node
equ_item(node, parsed, pointer, base, tbl, line) ==
    IF parsed.exc # "" THEN Outcome(<<>>, pointer, base, tbl, parsed.exc)
    ELSE IF parsed.label = NoLabel
    THEN Outcome(<<>>, pointer, base, tbl, "ValueError")
    ELSE Outcome(<<CodeNode("EQU", node, NoLex, parsed.label, 0,
                            offset_from_base(pointer, base), line, "")>>,
                 pointer, base, Labels_add(tbl, parsed.label), "")

\* NodeProcessor.process_EQU(tokens) for the tokens of a compound node
process_EQU(node, pointer, base, tbl, line) ==
    equ_item(node, Equate_validate(node, base), pointer, base, tbl, line)

\* the items of a compound node: its label item, then those of its second part
after_label(lbl, o) == Outcome(lbl \o o.items, o.pointer, o.base, o.tbl, o.exc)

\* the STORAGE branch of process_compound_node
compound_storage(lbl, sto) ==
    IF sto.exc # "" THEN sto
    ELSE Outcome(lbl \o sto.items,
                 move_location_relative(sto.pointer, sto.items[1].len)[1],
                 sto.base, sto.tbl, "")

\* process_compound_node once the label of the line is recorded
compound_second(node, lbl, pointer, base, tbl, line) ==
    IF node.body.dir = "INSTRUCTION"
    THEN after_label(lbl, process_INSTRUCTION(Simple(node.body), pointer, base,
                                              tbl, line))
    ELSE IF node.body.dir = "STORAGE"
    THEN compound_storage(lbl, process_STORAGE(Simple(node.body), pointer,
                                               base, tbl, line))
    ELSE Outcome(Append(lbl, CodeNode("NODE", node, NoLex, NoLabel, 0,
                                      offset_from_base(pointer, base),
                                      line, "")),
                 pointer, base, tbl, "")

\* process_compound_node for a label that is new
compound_new(node, made, pointer, base, tbl, line) ==
    IF made.exc # "" THEN made
    ELSE compound_second(node, made.items, pointer, base,
                         Labels_add(tbl, made.items[1].label), line)

\* process_compound_node for the label found in Labels()
compound_labelled(node, existing, pointer, base, tbl, line) ==
    IF existing = NoLabel
    THEN compound_new(node, process_LABEL(node, pointer, base, tbl, line),
                      pointer, base, tbl, line)
    ELSE compound_second(node,
                         <<CodeNode("LBL", node, NoLex, existing, 0,
                                    offset_from_base(pointer, base), line, "")>>,
                         pointer, base, tbl, line)

\* NodeProcessor.process_compound_node(node)
process_compound_node(node, pointer, base, tbl, line) ==
    IF node.body.dir = "EQU"
    THEN process_EQU(node, pointer, base, tbl, line)
    ELSE compound_labelled(node,
                           Labels_getitem(tbl, Strip(node.label, {"(", ")"})),
                           pointer, base, tbl, line)

\* the LABEL branch of process_node: Labels().add(label.code_obj)
label_added(lbl) ==
    IF lbl.exc # "" THEN lbl
    ELSE IF lbl.items = <<>>
    THEN Outcome(<<>>, lbl.pointer, lbl.base, lbl.tbl, "AttributeError")
    ELSE Outcome(lbl.items, lbl.pointer, lbl.base,
                 Labels_add(lbl.tbl, lbl.items[1].label), "")

\* is_node_valid(node): the node has a directive and tokens
is_node_valid(node) == node.dir # "" /\ node.body.toks # <<>>

\* NodeProcessor.process_node(node): None and the empty list are both <<>>
process_node(node, pointer, base, tbl, line) ==
    IF ~is_node_valid(node) THEN Outcome(<<>>, pointer, base, tbl, "")
    ELSE IF node.dir = "MULTIPLE"
    THEN process_compound_node(node, pointer, base, tbl, line)
    ELSE IF node.dir = "SECTION"
    THEN process_SECTION(node, pointer, base, tbl, line)
    ELSE IF node.dir = "LABEL"
    THEN label_added(process_LABEL(node, pointer, base, tbl, line))
    ELSE IF node.dir = "INSTRUCTION"
    THEN process_INSTRUCTION(node, pointer, base, tbl, line)
    ELSE Outcome(<<>>, pointer, base, tbl, "")

(***************************************************************************)
(* The driver: Assembler.parse runs pass1 and then pass2.  A Python        *)
(* exception raised by the node processor leaves the driver ("exception"). *)
(***************************************************************************)
\* a list that grows at its head
extend_reversed(list, items) == items \o list

\* list.extend / list.append of the driver's code lists
extend(list, items) == list \o items

\* a loop that ends at the first item in error
pass1_failfast(n, list) ==
    n < MaxLines /\ \A i \in 1..Len(list) : list[i].error = ""

\* the for loop of pass1: lines are left to process
pass1_more(n, list) == n < MaxLines

\* the for loop of pass2: items of self.code are left to visit
pass2_more(i, list) == i <= Len(list)

Init ==
    /\ ip_pointer = 0
    /\ ip_base = 0
    /\ labels = EmptyTable
    /\ code = <<>>
    /\ new_code = <<>>
    /\ idx = 0
    /\ line_no = 0
    /\ phase = "pass1"
    /\ ret = ResolvedNone
    /\ args = <<>>
    /\ nops = 0

\* one iteration of the loop of Assembler.pass1
Pass1Step ==
    /\ phase = "pass1"
    /\ pass1_more(line_no, code)
    /\ \E node \in LineNodes :
       \E o \in {process_node(node, ip_pointer, ip_base, labels, line_no + 1)} :
          /\ ip_pointer' = o.pointer
          /\ ip_base' = o.base
          /\ labels' = o.tbl
          /\ code' = IF o.exc = "" THEN extend(code, o.items) ELSE code
          /\ phase' = IF o.exc = "" THEN "pass1" ELSE "exception"
    /\ line_no' = line_no + 1
    /\ UNCHANGED <<new_code, idx, ret, args, nops>>

\* the head of Assembler.pass2: new_code = [], IP().base_address = 0x0000;
\* args keeps IP().location as pass 1 left it
Pass2Start ==
    /\ phase = "pass1"
    /\ ~pass1_more(line_no, code)
    /\ \E ip \in {base_address_set(ip_base, ip_pointer, PyInt(0))} :
          /\ ip_base' = ip[1]
          /\ ip_pointer' = ip[2]
    /\ new_code' = <<>>
    /\ idx' = 1
    /\ phase' = "pass2"
    /\ args' = <<"pass2", ip_pointer>>
    /\ UNCHANGED <<labels, code, line_no, ret, nops>>

\* one iteration of the loop of Assembler.pass2
Pass2Step ==
    /\ phase = "pass2"
    /\ pass2_more(idx, code)
    /\ IF code[idx].type = "NODE"
       THEN \E o \in {process_node(code[idx].node, ip_pointer, ip_base, labels,
                                   code[idx].line)} :
               /\ ip_pointer' = o.pointer
               /\ ip_base' = o.base
               /\ labels' = o.tbl
               /\ new_code' = IF o.exc = "" THEN extend(new_code, o.items)
                              ELSE new_code
               /\ phase' = IF o.exc = "" THEN "pass2" ELSE "exception"
       ELSE /\ ip_pointer' = move_relative(ip_pointer, code[idx].offset)[1]
            /\ new_code' = extend(new_code, <<code[idx]>>)
            /\ UNCHANGED <<ip_base, labels, phase>>
    /\ idx' = idx + 1
    /\ UNCHANGED <<code, line_no, ret, args, nops>>

\* the tail of Assembler.pass2: self.code.clear(); self.code = new_code
Pass2End ==
    /\ phase = "pass2"
    /\ ~pass2_more(idx, code)
    /\ code' = new_code
    /\ phase' = "done"
    /\ UNCHANGED <<ip_pointer, ip_base, labels, new_code, idx, line_no, ret,
                   args, nops>>

Next == Pass1Step \/ Pass2Start \/ Pass2Step \/ Pass2End

Spec == Init /\ [][Next]_vars

(***************************************************************************)
(* The instruction pointer on its own: any sequence of section             *)
(* declarations, location assignments and relative moves.                  *)
(***************************************************************************)
LocationValues == {0, 4096, 16384, 65535, 65536}

MoveValues == {-16384, -1, 1, 128}

RelativeValues == {0, 1, 2, 3, 127, 128, 254, 255}

InitIP ==
    /\ ip_pointer = 0
    /\ ip_base = 0
    /\ labels = EmptyTable
    /\ code = <<>>
    /\ new_code = <<>>
    /\ idx = 0
    /\ line_no = 0
    /\ phase = "ip"
    /\ ret = ResolvedNone
    /\ args = <<>>
    /\ nops = 0

\* IP().base_address = str_addr, as process_SECTION issues it
IpSection ==
    /\ nops < MaxIpOps
    /\ \E t \in SectionTypes :
       \E ip \in {base_address_set(ip_base, ip_pointer,
                     PyStr(expression_from_value(SectionStart(t), "$$")))} :
          /\ ip_base' = ip[1]
          /\ ip_pointer' = ip[2]
          /\ args' = <<"base_address", t>>
    /\ nops' = nops + 1
    /\ UNCHANGED <<labels, code, new_code, idx, line_no, phase, ret>>

\* IP().location = value
IpSetLocation ==
    /\ nops < MaxIpOps
    /\ \E value \in LocationValues :
          /\ ip_pointer' = location_set(ip_pointer, value)
          /\ args' = <<"location", value>>
    /\ nops' = nops + 1
    /\ UNCHANGED <<ip_base, labels, code, new_code, idx, line_no, phase, ret>>

\* IP().move_location_relative(val)
IpMoveLocationRelative ==
    /\ nops < MaxIpOps
    /\ \E val \in MoveValues :
          /\ ip_pointer' = move_location_relative(ip_pointer, val)[1]
          /\ args' = <<"move_location_relative", val>>
    /\ nops' = nops + 1
    /\ UNCHANGED <<ip_base, labels, code, new_code, idx, line_no, phase, ret>>

\* IP().move_relative(relative)
IpMoveRelative ==
    /\ nops < MaxIpOps
    /\ \E relative \in RelativeValues :
          /\ ip_pointer' = move_relative(ip_pointer, relative)[1]
          /\ args' = <<"move_relative", relative>>
    /\ nops' = nops + 1
    /\ UNCHANGED <<ip_base, labels, code, new_code, idx, line_no, phase, ret>>

NextIP == IpSection \/ IpSetLocation \/ IpMoveLocationRelative \/ IpMoveRelative

SpecIP == InitIP /\ [][NextIP]_vars

\* C2: in every reachable state of the instruction pointer,
\* base_address <= location <= 0xFFFF, whatever sections, location
\* assignments and relative moves were applied.
C2_LocationWithinBaseAndTop == ip_base <= ip_pointer /\ ip_pointer <= 65535

(***************************************************************************)
(* The label table on its own: labels are added and removed.               *)
(***************************************************************************)
LabelNames ==
    { <<".", "a", "b", ":">>, <<"A", "B">>, <<"a", "B", ":", ":">>,
      <<"c">>, <<".", "D", "e">>, <<"f", "_", "1", ":">> }

LabelValues == {16384, 16386}

InitLabels ==
    /\ ip_pointer = 0
    /\ ip_base = 0
    /\ labels = EmptyTable
    /\ code = <<>>
    /\ new_code = <<>>
    /\ idx = 0
    /\ line_no = 0
    /\ phase = "labels"
    /\ ret = ResolvedNone
    /\ args = <<>>
    /\ nops = 0

\* Labels().add(Label(name, value))
LabelsAdd ==
    /\ nops < MaxLabelOps
    /\ \E name \in LabelNames, value \in LabelValues :
          /\ ~LabelRaises(name)
          /\ labels' = Labels_add(labels, Label(name, value, FALSE, ip_base))
          /\ args' = <<"add", name>>
    /\ nops' = nops + 1
    /\ UNCHANGED <<ip_pointer, ip_base, code, new_code, idx, line_no, phase,
                   ret>>

\* Labels().remove(label) for a label found by name
LabelsRemove ==
    /\ nops < MaxLabelOps
    /\ \E name \in LabelNames :
          /\ labels' = Labels_remove(labels, Labels_getitem(labels, name))
          /\ args' = <<"remove", name>>
    /\ nops' = nops + 1
    /\ UNCHANGED <<ip_pointer, ip_base, code, new_code, idx, line_no, phase,
                   ret>>

\* Labels().remove_all()
LabelsRemoveAll ==
    /\ nops < MaxLabelOps
    /\ labels' = EmptyTable
    /\ args' = <<"remove_all">>
    /\ nops' = nops + 1
    /\ UNCHANGED <<ip_pointer, ip_base, code, new_code, idx, line_no, phase,
                   ret>>

NextLabels == LabelsAdd \/ LabelsRemove \/ LabelsRemoveAll

SpecLabels == InitLabels /\ [][NextLabels]_vars

LowerChar(c) ==
    CASE c = "A" -> "a"
      [] c = "B" -> "b"
      [] c = "C" -> "c"
      [] c = "D" -> "d"
      [] c = "E" -> "e"
      [] c = "F" -> "f"
      [] OTHER -> c

Lower(s) == [i \in 1..Len(s) |-> LowerChar(s[i])]

\* the spellings of a name: any letter case, with or without a leading '.',
\* with no trailing colon, with ':' or with '::'
KeyForms(name) ==
    { pre \o cased \o suf :
        pre \in {<<>>, <<".">>},
        cased \in { RStrip(LStrip(name, {"."}), {":"}),
                    Upper(RStrip(LStrip(name, {"."}), {":"})),
                    Lower(RStrip(LStrip(name, {"."}), {":"})) },
        suf \in {<<>>, <<":">>, <<":", ":">>} }

\* C10: for every symbol s held by the symbol table, a lookup by s's name
\* returns s, whatever the letter case of the key and whether or not the key
\* carries a leading '.' or a trailing ':' or '::'.
C10_LookupAnySpelling ==
    \A k \in DOMAIN labels :
        \A key \in KeyForms(labels[k].name) :
            Labels_getitem(labels, key) = labels[k]

\* two symbols are held, one of them added under a lower-case dotted name
C10_Witness ==
    /\ Cardinality(DOMAIN labels) = 2
    /\ \E k \in DOMAIN labels : labels[k].name = <<".", "a", "b", ":">>

(***************************************************************************)
(* The resolver on its own: a JR line at address A = IP().location whose   *)
(* label .A is defined at address T.                                       *)
(***************************************************************************)
JrAddresses == {256, 16384}

JrLines ==
    { <<T("JR"), T("NZ"), <<".", "A">>>>,
      <<T("JR"), <<".", "A">>>>,
      <<T("JR"), T("NZ"), <<".", "B">>>> }

InitResolver ==
    /\ ip_pointer \in JrAddresses
    /\ ip_base = 0
    /\ \E d \in (-MaxJrDist)..MaxJrDist :
          labels = Labels_add(EmptyTable,
                              Label(<<".", "A", ":">>, ip_pointer + d, FALSE, 0))
    /\ code = <<>>
    /\ new_code = <<>>
    /\ idx = 0
    /\ line_no = 0
    /\ phase = "resolver"
    /\ ret = ResolvedNone
    /\ args = <<>>
    /\ nops = 0

\* op_jr(lex) on the LexerResults of a JR line
OpJr ==
    /\ nops = 0
    /\ \E tokens \in JrLines :
          /\ ret' = op_jr(parse(tokens), ip_pointer, labels)
          /\ args' = <<"op_jr", tokens>>
    /\ nops' = nops + 1
    /\ UNCHANGED <<ip_pointer, ip_base, labels, code, new_code, idx, line_no,
                   phase>>

\* Resolver().resolve_instruction(Instruction(node), IP().location)
ResolveInstruction ==
    /\ nops = 0
    /\ \E tokens \in JrLines :
          /\ ret' = resolve_instruction(parse(tokens), ip_pointer, ip_pointer,
                                        labels)
          /\ args' = <<"resolve_instruction", tokens>>
    /\ nops' = nops + 1
    /\ UNCHANGED <<ip_pointer, ip_base, labels, code, new_code, idx, line_no,
                   phase>>

NextResolver == OpJr \/ ResolveInstruction

SpecResolver == InitResolver /\ [][NextResolver]_vars

\* the address of label .A
JrTarget == Labels_getitem(labels, <<".", "A">>).value

\* the resolver gave back a valid instruction that refers to a label
JrResolved ==
    /\ nops = 1
    /\ ret.status = "Instruction"
    /\ ret.label # NoLabel
    /\ lex_is_valid(ret.ins)
    /\ ret.ins.mnemonic = T("JR")

\* a byte read as a signed 8-bit number
Signed(byte) == IF byte >= 128 THEN byte - 256 ELSE byte

\* C3: every JR at address A that the resolver resolves to a label at address
\* T carries a displacement byte d with signed(d) = T - (A + 2), in
\* [-128, 127], for backward and forward targets alike.
C3_JrDisplacement ==
    JrResolved =>
        /\ Len(ret.ins.bytes) = 2
        /\ Signed(ret.ins.bytes[2]) = JrTarget - (ip_pointer + 2)
        /\ Signed(ret.ins.bytes[2]) \in (-128)..127

\* C4: resolving a JR to a label succeeds when target - (A + 2) is -128 or
\* +127 and is rejected when it is -129 or +128.
C4_JrRangeEdges ==
    (nops = 1 /\ args[1] = "op_jr" /\ args[2][Len(args[2])] = <<".", "A">>) =>
        /\ JrTarget - (ip_pointer + 2) \in {-128, 127} => JrResolved
        /\ JrTarget - (ip_pointer + 2) \in {-129, 128} => ~JrResolved

(***************************************************************************)
(* Properties of the two passes.                                           *)
(***************************************************************************)
\* the position of the last SECTION item among the first n items, or 0
RECURSIVE LastSection(_, _)
LastSection(list, n) ==
    IF n = 0 THEN 0
    ELSE IF list[n].type = "SEC" THEN n
    ELSE LastSection(list, n - 1)

\* the position of the first SECTION item from position n on, or 0
RECURSIVE FirstSection(_, _)
FirstSection(list, n) ==
    IF n > Len(list) THEN 0
    ELSE IF list[n].type = "SEC" THEN n
    ELSE FirstSection(list, n + 1)

\* the start of the address range of the section of a SECTION item
SectionBase(item) == SectionStart(item.node.body.toks[3])

\* the bytes emitted by the instruction and storage items after position n
RECURSIVE EmittedLength(_, _)
EmittedLength(list, n) ==
    IF n >= Len(list) THEN 0
    ELSE (IF list[n + 1].type \in {"INST", "STOR"} THEN list[n + 1].len ELSE 0)
         + EmittedLength(list, n + 1)

\* C1: after a SECTION S is processed and further instruction and storage
\* items of L bytes in total are emitted in it, IP.location is S.range.start
\* + L.
C1_LocationIsStartPlusLength ==
    (phase = "pass1" /\ LastSection(code, Len(code)) > 0) =>
        ip_pointer = SectionBase(code[LastSection(code, Len(code))])
                     + EmittedLength(code, LastSection(code, Len(code)))

\* the length pass 1 is to assume for an instruction it cannot resolve yet
TentativeLength(toks) ==
    IF toks[1] = T("JR") THEN 2
    ELSE IF toks[1] = T("JP") THEN 3
    ELSE 1

\* the last item of pass 1 is an instruction left unresolved because its
\* operand is a label that is not defined yet
LastIsUnresolved ==
    /\ phase = "pass1"
    /\ code # <<>>
    /\ code[Len(code)].type = "NODE"
    /\ code[Len(code)].node.dir = "INSTRUCTION"
    /\ code[Len(code)].line = line_no
    /\ Labels_getitem(labels,
           code[Len(code)].node.body.toks[Len(code[Len(code)].node.body.toks)])
         = NoLabel

\* C5: when pass 1 processes an instruction whose operand is a label that is
\* not defined yet, it emits an UNRESOLVED item and advances IP by the
\* tentative length, so that what follows keeps its address.
C5_UnresolvedAdvancesLocation ==
    LastIsUnresolved =>
        ip_pointer = ip_base + code[Len(code)].offset
                     + TentativeLength(code[Len(code)].node.body.toks)

\* the base address of the section the item at position n belongs to
ItemSectionBase(list, n) ==
    IF LastSection(list, n) = 0 THEN 0
    ELSE SectionBase(list[LastSection(list, n)])

\* C6: in pass 2, each visit of an item that is not UNRESOLVED sets
\* IP.location to the base address of the item's section plus its offset.
C6_Pass2VisitSetsLocation ==
    [][(phase = "pass2" /\ pass2_more(idx, code) /\ code[idx].type # "NODE")
          => ip_pointer' = ItemSectionBase(code, idx) + code[idx].offset]_vars

\* C7: at the start of pass 2, before any item is visited, IP.location is the
\* base address of the first section.
C7_Pass2StartsAtFirstSection ==
    (phase = "pass2" /\ idx = 1 /\ FirstSection(code, 1) > 0) =>
        ip_pointer = SectionBase(code[FirstSection(code, 1)])

\* the items of new are those of old in order, an item that is not
\* UNRESOLVED standing for itself and an UNRESOLVED one replaced, where it
\* stood, by the one or two items made from its node
RECURSIVE InOrder(_, _)
InOrder(new, old) ==
    IF old = <<>> THEN new = <<>>
    ELSE IF new = <<>> THEN FALSE
    ELSE IF Head(old).type # "NODE"
    THEN Head(new) = Head(old) /\ InOrder(Tail(new), Tail(old))
    ELSE \E k \in 1..2 :
            /\ k <= Len(new)
            /\ \A j \in 1..k : /\ new[j].node = Head(old).node
                               /\ new[j].line = Head(old).line
            /\ InOrder(SubSeq(new, k + 1, Len(new)), Tail(old))

\* C8: pass 2 does not reorder items: what it has built holds the items of
\* the pass-1 list it has visited in the same order, each UNRESOLVED item
\* replaced at its own position by what it resolves to.
C8_Pass2KeepsOrder ==
    phase = "pass2" => InOrder(new_code, SubSeq(code, 1, idx - 1))

\* pass 2 has visited a list of at least three items, of which the second is
\* UNRESOLVED and the others are not
C8_Witness ==
    /\ phase = "pass2"
    /\ idx = Len(code) + 1
    /\ Len(code) >= 3
    /\ code[2].type = "NODE"
    /\ code[1].type # "NODE"
    /\ code[3].type # "NODE"
    /\ Len(new_code) >= 3

\* an item that records a hard error
HardError(item) == item.error # ""

NewLabelItems ==
    { i \in (Len(code) + 1)..Len(code') : code'[i].type = "LBL" }

\* C11: adding an address-defined symbol whose cleaned name is already an
\* address-defined key of the symbol table raises a fatal double-definition
\* diagnostic and is never accepted silently: a pass 1 step that goes on
\* without an exception emits no LABEL item for a name that the table held
\* before the step.
C11_DoubleDefinitionRaises ==
    [][(phase = "pass1" /\ phase' = "pass1")
         => \A i \in NewLabelItems :
               Labels_getitem(labels, code'[i].node.label) = NoLabel]_vars

\* the symbol of a label: (name, value, scope, is_constant)
Symbol(l) == <<l.name, l.value, l.scope, l.constant>>

SymbolTable(tbl) == [k \in DOMAIN tbl |-> Symbol(tbl[k])]

\* the table holds the constant that this EQU line defines, with its value
ReAdds(node) ==
    /\ node.body.dir = "EQU"
    /\ Labels_getitem(labels, node.label) # NoLabel
    /\ Labels_getitem(labels, node.label).constant
    /\ Labels_getitem(labels, node.label).name = node.label
    /\ Labels_getitem(labels, node.label).value
         = value_from_expression(PyStr(node.body.toks[2]))

\* the outcome leaves the symbols as they are and carries no diagnostic
Idempotent(o) ==
    /\ o.exc = ""
    /\ SymbolTable(o.tbl) = SymbolTable(labels)
    /\ \A i \in 1..Len(o.items) : o.items[i].type = "EQU" /\ o.items[i].error = ""

\* C12: re-adding an EQU symbol with the same name and the same value is
\* idempotent: in pass 1, processing an EQU line whose constant the table
\* already holds with that value leaves the symbol table equal to the table
\* before and produces no diagnostic.
C12_EquReAddIdempotent ==
    phase = "pass1" =>
        \A node \in LineNodes :
            ReAdds(node) =>
                Idempotent(process_node(node, ip_pointer, ip_base, labels,
                                        line_no + 1))

\* the same EQU line has been processed twice
C12_Witness ==
    \E i, j \in 1..Len(code) :
        /\ i < j
        /\ code[i].type = "EQU" /\ code[j].type = "EQU"
        /\ Symbol(code[i].label) = Symbol(code[j].label)
        /\ Labels_getitem(labels, code[j].label.name) # NoLabel

(***************************************************************************)
(* Pass 1 over lines that define major labels and private labels.          *)
(***************************************************************************)
ScopeNodes ==
    { LabelNode(LabelB), LabelNode(LabelC), LabelNode(LabelA),
      Compound(LabelA, InsNop), Simple(InsNop) }

\* one iteration of the loop of Assembler.pass1 for a line of ScopeNodes
ScopeStep ==
    /\ phase = "pass1"
    /\ line_no < MaxScopeLines
    /\ \E node \in ScopeNodes :
       \E o \in {process_node(node, ip_pointer, ip_base, labels, line_no + 1)} :
          /\ ip_pointer' = o.pointer
          /\ ip_base' = o.base
          /\ labels' = o.tbl
          /\ code' = IF o.exc = "" THEN extend(code, o.items) ELSE code
          /\ phase' = IF o.exc = "" THEN "pass1" ELSE "exception"
    /\ line_no' = line_no + 1
    /\ UNCHANGED <<new_code, idx, ret, args, nops>>

SpecScopes == Init /\ [][ScopeStep]_vars

\* a private ("minor") name starts with '.'
IsPrivate(name) == name # <<>> /\ name[1] = "."

\* the LABEL items of the code list that define a major label
MajorItems(list) ==
    { i \in 1..Len(list) :
        list[i].type = "LBL" /\ ~IsPrivate(list[i].node.label) }

\* the major label that encloses item i: the name on the last major LABEL
\* item before it, NoText where there is none
EnclosingMajor(list, i) ==
    IF \E j \in MajorItems(list) : j < i
    THEN list[CHOOSE j \in MajorItems(list) :
                 j < i /\ \A k \in MajorItems(list) : k < i => k <= j].node.label
    ELSE NoText

\* item i is the LABEL item of a line that defines a private label
PrivateItem(list, i) == list[i].type = "LBL" /\ IsPrivate(list[i].node.label)

\* C13: two private symbols with the same bare name that are defined under
\* different major symbols are distinct entries of the symbol table.
C13_PrivatesPerMajor ==
    \A i, j \in 1..Len(code) :
        ( /\ i < j
          /\ PrivateItem(code, i) /\ PrivateItem(code, j)
          /\ code[i].node.label = code[j].node.label
          /\ EnclosingMajor(code, i) # NoText
          /\ EnclosingMajor(code, j) # NoText
          /\ EnclosingMajor(code, i) # EnclosingMajor(code, j) )
        => Cardinality({ k \in DOMAIN labels :
                           labels[k].name = code[i].node.label }) >= 2

\* a major symbol is active: the table holds a label whose name is not private
MajorActive(tbl) == \E k \in DOMAIN tbl : ~IsPrivate(tbl[k].name)

\* C14: a private symbol is never looked up while no major symbol is active:
\* a pass 1 step whose lookup in the symbol table finds the private label of
\* its line is taken only in a state where a major label is defined.
C14_PrivateLookupNeedsMajor ==
    [][\A i \in NewLabelItems :
          ( /\ IsPrivate(code'[i].node.label)
            /\ Labels_getitem(labels, code'[i].node.label) # NoLabel )
          => MajorActive(labels)]_vars

\* C15: from the start of pass 1 to the end of pass 2 symbols are only
\* created in pass 1 and never deleted: no step removes a key of the symbol
\* table, no step of pass 2 adds one, and no step changes the value of a
\* symbol that the table holds.
C15_SymbolsOnlyGrowInPass1 ==
    [][ /\ DOMAIN labels \subseteq DOMAIN labels'
        /\ (phase = "pass2" => DOMAIN labels' = DOMAIN labels)
        /\ \A k \in DOMAIN labels : labels'[k].value = labels[k].value ]_vars

\* C16: for a compound line [Label, X] processed in pass 1 the LABEL item is
\* emitted before the items of X (it is the first item of the line and the
\* only LABEL item) and the address of its label is IP.location as it was
\* before X was emitted.
C16_LabelBeforeSecond ==
    [][phase = "pass1" =>
          \A i \in NewLabelItems :
              code'[i].node.dir = "MULTIPLE" =>
                  /\ i = Len(code) + 1
                  /\ code'[i].label.value = ip_pointer]_vars

\* the outcome is one UNRESOLVED item that carries a diagnostic, and the
\* instruction pointer is where it was
UnresolvedOnly(o) ==
    /\ o.exc = ""
    /\ Len(o.items) = 1
    /\ o.items[1].type = "NODE"
    /\ o.items[1].error # ""
    /\ o.pointer = ip_pointer
    /\ o.base = ip_base

\* C17: processing an Invalid line node (a line that the tokenizer could not
\* classify) emits an UNRESOLVED item that carries the diagnostic and leaves
\* IP.location and IP.base_address unchanged.
C17_InvalidEmitsUnresolved ==
    phase = "pass1" =>
        \A node \in LineNodes :
            node.dir = "UNKNOWN" =>
                UnresolvedOnly(process_node(node, ip_pointer, ip_base, labels,
                                            line_no + 1))

\* a SECTION line with a name and a section type that exists
WellFormedSection(node) ==
    /\ node.dir = "SECTION"
    /\ Len(node.body.toks) >= 3
    /\ node.body.toks[3] \in SectionTypes

\* the outcome is one SECTION item with offset 0, and the base address and
\* the location of the instruction pointer are both start
SectionAt(o, start) ==
    /\ o.exc = ""
    /\ Len(o.items) = 1
    /\ o.items[1].type = "SEC"
    /\ o.items[1].offset = 0
    /\ o.base = start
    /\ o.pointer = start

StorageEmitted(o) ==
    /\ o.exc = ""
    /\ \E i \in 1..Len(o.items) :
          /\ o.items[i].type = "STOR"
          /\ o.pointer = ip_pointer + o.items[i].len

\* C19: every storage directive, whether it stands on its own line or follows
\* a label on the same line, emits a STORAGE item and advances IP.location by
\* exactly the number of bytes it emits.
C19_StorageAdvances ==
    phase = "pass1" =>
        \A node \in LineNodes :
            node.body.dir = "STORAGE" =>
                StorageEmitted(process_node(node, ip_pointer, ip_base, labels,
                                            line_no + 1))

\* the label operand of the line handed to the resolver (its last token) is
\* not a key of the symbol table
LabelOperandMissing ==
    /\ nops = 1
    /\ Labels_getitem(labels, args[2][Len(args[2])]) = NoLabel

\* C20: when the cleaned name of a label operand is not in the symbol table
\* as the resolver handles the instruction, resolution fails with an
\* UnresolvedSymbol hard error and the resolver returns no instruction item.
C20_MissingLabelIsHardError ==
    LabelOperandMissing => ret.status = "UnresolvedSymbol"

\* C21: every operation of the pipeline is total: whatever the line nodes
\* (a label that is already defined and an instruction with an unknown
\* operand included), the node processor and the resolver return code items
\* or an error value, and the run never ends in an unhandled exception.
C21_NoUnhandledException == phase # "exception"

(***************************************************************************)
(* Storage: the parsers of the DS, DW and DL directives applied to a line. *)
(***************************************************************************)
\* what a storage parser leaves behind: its _data, or the exception raised
Stored(data) == [exc |-> "", data |-> data]

StoreRaises(exc) == [exc |-> exc, data |-> <<>>]

\* StorageParser._to_space(components): size and value are the converted
\* components; range(0, None) raises TypeError, and only the value is
\* validated because the second assignment of valid replaces the first
to_space_data(size, value) ==
    IF ~(value >= 0 /\ value < 256) THEN StoreRaises("DefineDataError")
    ELSE IF size = NoneInt THEN StoreRaises("TypeError")
    ELSE Stored([i \in 1..size |-> value])

\* the components of a DS line converted by value_from_expression
space_of(toks) ==
    to_space_data(IF Len(toks) >= 2 THEN value_from_expression(PyStr(toks[2]))
                  ELSE 1,
                  IF Len(toks) >= 3 THEN value_from_expression(PyStr(toks[3]))
                  ELSE 0)

\* one turn of the loops of _to_words and _to_longs of gbasm/storage.py: the
\* range check (a comparison with None raises TypeError) and
\* self._data.append(num) on a bytearray, which raises ValueError for a
\* number above 255
number_appended(acc, num, in_range) ==
    IF acc.exc # "" THEN acc
    ELSE IF num = NoneInt THEN StoreRaises("TypeError")
    ELSE IF ~in_range THEN StoreRaises("DefineDataError")
    ELSE IF num >= 256 THEN StoreRaises("ValueError")
    ELSE Stored(Append(acc.data, num))

\* StorageParser._to_words(data_list) of gbasm/storage.py
RECURSIVE to_words(_, _)
to_words(data_list, acc) ==
    IF data_list = <<>> THEN acc
    ELSE to_words(Tail(data_list),
                  number_appended(acc,
                                  value_from_expression(PyStr(Head(data_list))),
                                  65536 > value_from_expression(
                                              PyStr(Head(data_list)))
                                  /\ value_from_expression(
                                         PyStr(Head(data_list))) >= 0))

\* StorageParser._to_longs(data_list) of gbasm/storage.py; the operands of
\* LongTexts are below 2^31, hence below the upper limit 4294967295
RECURSIVE to_longs(_, _)
to_longs(data_list, acc) ==
    IF data_list = <<>> THEN acc
    ELSE to_longs(Tail(data_list),
                  number_appended(acc,
                                  value_from_expression(PyStr(Head(data_list))),
                                  value_from_expression(
                                      PyStr(Head(data_list))) >= 0))

\* StorageParser._parse of gbasm/storage.py for a DS, DW or DL line
storage_parse(toks) ==
    IF toks[1] = T("DS") THEN space_of(toks)
    ELSE IF toks[1] = T("DW") THEN to_words(Tail(toks), Stored(<<>>))
    ELSE to_longs(Tail(toks), Stored(<<>>))

\* StorageParser._to_byte_array(val, bits) of LR35902_asm: each next byte is
\* inserted at index 0
RECURSIVE to_byte_array(_, _)
to_byte_array(val, bits) ==
    IF bits <= 0 THEN <<>>
    ELSE to_byte_array(val \div 256, bits - 8) \o <<val % 256>>

\* one turn of the loops of _to_words and _to_longs of LR35902_asm for a
\* converted operand (the operands are below 2^31, hence below 4294967296)
lr_number(num, bits) ==
    IF bits = 16 /\ ~(65536 > num /\ num >= 0)
    THEN StoreRaises("DefineDataError")
    ELSE IF num < 0 THEN StoreRaises("DefineDataError")
    ELSE Stored(to_byte_array(num, bits))

DsSizes == {1, 2, 3} \cup (1020..MaxDsSize)

DsValues == {0, 1, 254, 255, 256}

WordValues ==
    {1, 2, 128, 255, 256, 511, 4096, 4660, 32768, 43981, 65534, 65535, 65536}

LongValues ==
    {1, 255, 256, 4660, 65536, 16777216, 305419896, 2147483647}

StorageLines ==
    { <<T("DS"), DecText(n), DecText(v)>> : n \in DsSizes, v \in DsValues }
    \cup { <<T("DS"), DecText(n)>> : n \in DsSizes }
    \cup { <<T("DW"), DecText(n)>> : n \in WordValues }
    \cup { <<T("DW"), DecText(n), DecText(m)>> : n, m \in {1, 255, 256} }
    \cup { <<T("DL"), DecText(n)>> : n \in LongValues }

InitStorage ==
    /\ ip_pointer = 0
    /\ ip_base = 0
    /\ labels = EmptyTable
    /\ code = <<>>
    /\ new_code = <<>>
    /\ idx = 0
    /\ line_no = 0
    /\ phase = "storage"
    /\ ret = Stored(<<>>)
    /\ args = <<>>
    /\ nops = 0

\* Storage(node) of gbasm for the tokens of a storage line
StorageParse ==
    /\ nops = 0
    /\ \E toks \in StorageLines :
          /\ ret' = storage_parse(toks)
          /\ args' = <<"gbasm", toks[1], toks>>
    /\ nops' = 1
    /\ UNCHANGED <<ip_pointer, ip_base, labels, code, new_code, idx, line_no,
                   phase>>

\* the loops of _to_words and _to_longs of LR35902_asm for one operand
LrStorageParse ==
    /\ nops = 0
    /\ \/ \E n \in WordValues :
             /\ ret' = lr_number(n, 16)
             /\ args' = <<"LR35902", T("DW"), <<T("DW"), DecText(n)>>>>
       \/ \E n \in LongValues :
             /\ ret' = lr_number(n, 32)
             /\ args' = <<"LR35902", T("DL"), <<T("DL"), DecText(n)>>>>
    /\ nops' = 1
    /\ UNCHANGED <<ip_pointer, ip_base, labels, code, new_code, idx, line_no,
                   phase>>

NextStorage == StorageParse \/ LrStorageParse

SpecStorage == InitStorage /\ [][NextStorage]_vars

\* the line parsed is "DS n, v"
DsLine(n, v) == nops = 1 /\ args[3] = <<T("DS"), DecText(n), DecText(v)>>

\* C22: a DS directive with count 1024 and fill 255 succeeds and yields 1024
\* bytes of value 255; a DS directive with count 1025 fails with a
\* StorageDefine error.
C22_DsCountLimit ==
    /\ DsLine(1024, 255) => ret = Stored([i \in 1..1024 |-> 255])
    /\ DsLine(1025, 255) => ret.exc = "DefineDataError"

\* 256^k for the byte positions of a long
Pow256(k) ==
    CASE k = 0 -> 1
      [] k = 1 -> 256
      [] k = 2 -> 65536
      [] k = 3 -> 16777216

\* the count bytes of n, least significant byte first
LittleEndian(n, count) == [i \in 1..count |-> (n \div Pow256(i - 1)) % 256]

\* the line parsed has directive dir and one operand
OneOperand(dir) == nops = 1 /\ args[2] = T(dir) /\ Len(args[3]) = 2

\* the operand of the line parsed
OperandValue == value_from_expression(PyStr(args[3][2]))

\* C25: DW emits each 16-bit operand as two bytes in little-endian order (low
\* byte first) and DL emits each 32-bit operand as four bytes in
\* little-endian order (least significant byte first).
C25_LittleEndianStorage ==
    /\ (OneOperand("DW") /\ OperandValue < 65536)
          => ret = Stored(LittleEndian(OperandValue, 2))
    /\ OneOperand("DL") => ret = Stored(LittleEndian(OperandValue, 4))

(***************************************************************************)
(* The instruction parser applied to one tokenized instruction line.       *)
(***************************************************************************)
MaxOperand == 47       \* largest operand value handed to the parser

CbLines == { <<T("RLC"), T("B")>>, <<T("SWAP"), T("A")>> }

ParseLines ==
    CbLines
    \cup { <<T("NOP")>>, <<T("RLC"), T("A")>>, <<T("SWAP"), T("HL")>> }
    \cup { <<T("LD"), T("A"), expression_from_value(n, "$")>> :
             n \in 0..MaxOperand }
    \cup { <<T("JP"), expression_from_value(n * 257, "$$")>> :
             n \in 0..MaxOperand }
    \cup { <<T("JR"), expression_from_value(n, "$")>> : n \in 0..MaxOperand }

InitParser ==
    /\ ip_pointer = 0
    /\ ip_base = 0
    /\ labels = EmptyTable
    /\ code = <<>>
    /\ new_code = <<>>
    /\ idx = 0
    /\ line_no = 0
    /\ phase = "parser"
    /\ ret = ResolvedNone
    /\ args = <<>>
    /\ nops = 0

\* InstructionParser(tokens): _parse on the tokens of an instruction line
ParseLine ==
    /\ nops = 0
    /\ \E tokens \in ParseLines :
          /\ ret' = Resolved(parse(tokens), NoLabel)
          /\ args' = <<"parse", tokens>>
    /\ nops' = 1
    /\ UNCHANGED <<ip_pointer, ip_base, labels, code, new_code, idx, line_no,
                   phase>>

SpecParser == InitParser /\ [][ParseLine]_vars

\* C23: for an instruction of the CB-prefixed family (opcode value of 0x100
\* or more) the emitted bytes begin with the prefix byte 0xCB, followed by
\* the sub-opcode byte, followed by the operand bytes: opcode 0xCB00 is
\* emitted as the two bytes CB 00.
C23_CbPrefixFirst ==
    (nops = 1 /\ args[2] \in CbLines)
        => ret.ins.bytes = <<203, Opcode(args[2]) % 256>>

(***************************************************************************)
(* Expression of LR35902_gbasm applied to hexadecimal text.                *)
(***************************************************************************)
MaxHexDigits == 4      \* longest run of hex digits handed to Expression

\* a validated expression: the width of its descriptor and its value, or
\* the exception that Expression.__init__ raises
Validated(bits, value) == [exc |-> "", bits |-> bits, value |-> value]

ExpressionRaises(exc) == [exc |-> exc, bits |-> 0, value |-> NoneInt]

\* the first prefix of VALUE_PREFIXES that the text starts with, for the
\* prefixes "$$" and "$"
prefix_key(e) ==
    IF Len(e) >= 2 /\ e[1] = "$" /\ e[2] = "$" THEN <<"$", "$">>
    ELSE IF Len(e) >= 1 /\ e[1] = "$" THEN <<"$">>
    ELSE <<>>

\* Expression._check_exp for the descriptor of this width: HEX_DESCR has
\* length limits 0..2 and HEX16_DESCR 0..4; _try_val_range raises nothing
\* for a number (min > num > max never holds) and int('', 16) raises
\* ValueError
check_exp(raw, bits) ==
    IF \E i \in 1..Len(raw) : HexDigitValue(raw[i]) = NoneInt
    THEN ExpressionRaises("ExpressionSyntaxError")
    ELSE IF Len(raw) > (IF bits = 8 THEN 2 ELSE 4)
    THEN ExpressionRaises("ExpressionBoundsError")
    ELSE IF raw = <<>> THEN ExpressionRaises("ValueError")
    ELSE Validated(bits, HexFold(raw, 0))

\* Expression._process for hexadecimal text: with the key "$" the descriptor
\* is HEX16_DESCR only when the whole expression has five characters
Expression_process(e) ==
    IF prefix_key(e) = <<"$", "$">>
    THEN check_exp(SubSeq(e, 3, Len(e)), 16)
    ELSE IF prefix_key(e) = <<"$">>
    THEN check_exp(Tail(e), IF Len(e) = 5 THEN 16 ELSE 8)
    ELSE ExpressionRaises("")

HexSamples == {"0", "1", "F"}

RECURSIVE HexRuns(_)
HexRuns(n) ==
    IF n = 0 THEN {<<>>}
    ELSE HexRuns(n - 1)
         \cup { Append(r, c) : r \in { x \in HexRuns(n - 1) : Len(x) = n - 1 },
                               c \in HexSamples }

ExpressionTexts ==
    { <<"$">> \o r : r \in HexRuns(MaxHexDigits) }
    \cup { <<"$", "$">> \o r : r \in HexRuns(MaxHexDigits) }

InitExpression ==
    /\ ip_pointer = 0
    /\ ip_base = 0
    /\ labels = EmptyTable
    /\ code = <<>>
    /\ new_code = <<>>
    /\ idx = 0
    /\ line_no = 0
    /\ phase = "expression"
    /\ ret = ExpressionRaises("")
    /\ args = <<>>
    /\ nops = 0

\* Expression(text)
NewExpression ==
    /\ nops = 0
    /\ \E e \in ExpressionTexts :
          /\ ret' = Expression_process(e)
          /\ args' = <<"Expression", e>>
    /\ nops' = 1
    /\ UNCHANGED <<ip_pointer, ip_base, labels, code, new_code, idx, line_no,
                   phase>>

SpecExpression == InitExpression /\ [][NewExpression]_vars

\* the text handed to Expression
ExpressionOf(e) == nops = 1 /\ args[2] = e

\* C24: the hex expression $FF parses as an 8-bit value 255, $00FF parses as
\* a 16-bit value 255, and $100 (three hex digits) is treated as a 16-bit
\* value.
C24_HexWidths ==
    /\ ExpressionOf(<<"$", "F", "F">>) => ret = Validated(8, 255)
    /\ ExpressionOf(<<"$", "0", "0", "F", "F">>) => ret = Validated(16, 255)
    /\ ExpressionOf(<<"$", "1", "0", "0">>) => ret = Validated(16, 256)

\* ---------------------------------------------------------------------
\* C26: InstructionPointer.move_relative(b), for a byte b in 0..255,
\* returns True and moves the location forward by b when b is in 0..127
\* and backward by 256 - b when b is in 128..255.
SignedByte(b) == IF b < 128 THEN b ELSE b - 256

C26_MoveRelativeSignedByte ==
    [][(args'[1] = "move_relative" /\ ip_pointer > 256)
          => /\ move_relative(ip_pointer, args'[2])[2]
             /\ ip_pointer' = ip_pointer + SignedByte(args'[2])]_vars

\* ---------------------------------------------------------------------
\* C27: if the code list of pass 1 holds no unresolved (NODE) item, then
\* at the end of the loop of pass 2 the new code list equals the list of
\* pass 1 and IP.location is the value it had when pass 1 ended.
NoUnresolved(list) == \A i \in 1..Len(list) : list[i].type # "NODE"

Pass2LoopDone == phase = "pass2" /\ ~pass2_more(idx, code)

C27_Pass2Idempotent ==
    (Pass2LoopDone /\ NoUnresolved(code))
        => (new_code = code /\ ip_pointer = args[2])

C27_CodeListKept ==
    (Pass2LoopDone /\ NoUnresolved(code)) => new_code = code

\* ---------------------------------------------------------------------
\* C28: no source line is dropped silently: when pass 2 has ended, every
\* line that pass 1 was handed has at least one item in the code list
\* (an item in error carries the diagnostic of its line).
LineHasItem(list, l) == \E i \in 1..Len(list) : list[i].line = l

C28_NoLineDropped ==
    phase = "done" => \A l \in 1..line_no : LineHasItem(code, l)

(***************************************************************************)
(* BasicLexer.  A source line is the list of its words (what split()       *)
(* gives for the text before the comment) and whether a comment follows.   *)
(* Under SpecLexer, code is the class attribute BasicLexer._tokenized,     *)
(* which every instance appends to; args is the buffer of the lexer made   *)
(* last, idx the number of its lines the reader has handed out, line_no    *)
(* its _line_no and nops the number of lexers made so far.                 *)
(***************************************************************************)
MaxLexers == 2

MaxBufLines == 2

SourceLine(words, comment) == [words |-> words, comment |-> comment]

\* the directives of _tokenize_line that the lines of this model use
Directives == {T("EQU"), T("SECTION")}

DirName(word) == IF word = T("SECTION") THEN "SECTION" ELSE "EQU"

StorageWords == {T("DS"), T("DB"), T("DW"), T("DL")}

\* is_valid_label(name): Label(name, 0) is not None; a name the
\* constructor refuses raises instead (no line of LexLines has one)
is_valid_label(name) == ~LabelRaises(name)

RECURSIVE tokenize_line(_)
\* BasicLexer._tokenize_line(line), on the words of the line
tokenize_line(words) ==
    LET first == words[1]
    IN  IF first \in Directives THEN Simple(Body(DirName(first), words))
        ELSE IF first \in StorageWords THEN Simple(Body("STORAGE", words))
        ELSE IF is_mnemonic(first) THEN Simple(Body("INSTRUCTION", words))
        ELSE IF valid_label_first_char(first[1]) /\ is_valid_label(first)
        THEN IF Len(words) > 1
             THEN Compound(first, tokenize_line(Tail(words)).body)
             ELSE LabelNode(first)
        ELSE Simple(Body("UNKNOWN", words))

\* line.upper()
UpperWords(words) == [i \in 1..Len(words) |-> Upper(words[i])]

Token(node, source_line) == [node |-> node, source_line |-> source_line]

RECURSIVE tokenize(_, _)
\* the loop of BasicLexer.tokenize over the lines left in the reader,
\* n being self._line_no: the tokens it appends, in order
tokenize(lines, n) ==
    IF lines = <<>> THEN <<>>
    ELSE IF Head(lines).words = <<>> THEN tokenize(Tail(lines), n)
    ELSE <<Token(tokenize_line(UpperWords(Head(lines).words)), n + 1)>>
             \o tokenize(Tail(lines), n + 1)

LexLines ==
    { SourceLine(<<T("NOP")>>, FALSE),
      SourceLine(<<<<".", "a", ":">>>>, TRUE),
      SourceLine(<<<<"B", ":">>, T("DS"), <<"$", "0", "2">>>>, FALSE),
      SourceLine(<<<<"$", "1", "0">>>>, FALSE),
      SourceLine(<<>>, TRUE),
      SourceLine(<<>>, FALSE) }

Buffers == UNION {[1..n -> LexLines] : n \in 0..MaxBufLines}

InitLexer ==
    /\ ip_pointer = 0
    /\ ip_base = 0
    /\ labels = EmptyTable
    /\ code = <<>>
    /\ new_code = <<>>
    /\ idx = 0
    /\ line_no = 0
    /\ phase = "lexer"
    /\ ret = ResolvedNone
    /\ args = <<>>
    /\ nops = 0

\* Assembler.load_from_buffer(buffer_in): a BufferReader on the buffer and
\* a BasicLexer on that reader; the class attributes are not touched
LoadFromBuffer ==
    /\ nops < MaxLexers
    /\ \E buffer \in Buffers : args' = buffer
    /\ idx' = 0
    /\ line_no' = 0
    /\ nops' = nops + 1
    /\ UNCHANGED <<ip_pointer, ip_base, labels, code, new_code, phase, ret>>

\* self.lexer.tokenize(), the first step of Assembler.pass1
Tokenize ==
    /\ nops > 0
    /\ idx < Len(args)
    /\ \E new \in {tokenize(SubSeq(args, idx + 1, Len(args)), line_no)} :
          /\ code' = extend(code, new)
          /\ line_no' = line_no + Len(new)
    /\ idx' = Len(args)
    /\ UNCHANGED <<ip_pointer, ip_base, labels, new_code, phase, ret, args,
                   nops>>

NextLexer == LoadFromBuffer \/ Tokenize

SpecLexer == InitLexer /\ [][NextLexer]_vars

\* C29: once a lexer has tokenized its buffer, tokenized_list() holds the
\* tokens of the lines of that buffer only, in source order and numbered
\* from 1.
C29_OwnLinesOnly ==
    (nops > 0 /\ idx = Len(args) /\ args # <<>>) => code = tokenize(args, 0)

\* the same for the first lexer of the process
C29_FirstLexerOnly ==
    (nops = 1 /\ idx = Len(args) /\ args # <<>>) => code = tokenize(args, 0)

\* ---------------------------------------------------------------------
\* Emissions inside a section: pass 1 over SECTION lines and lines that
\* emit code or storage.
MaxSectionLines == 3

SectionOam == Body("SECTION", <<T("SECTION"), <<"O">>, <<"O", "A", "M">>>>)

SectionNodes ==
    { Simple(SectionOam), Simple(SectionHram), Simple(SectionRomx),
      Simple(InsNop), Simple(InsJp), Compound(LabelB, InsNop),
      Compound(LabelB, StoDs128), Compound(LabelC, StoDs128) }

\* one iteration of the loop of Assembler.pass1 for a line of SectionNodes
SectionStep ==
    /\ phase = "pass1"
    /\ line_no < MaxSectionLines
    /\ \E node \in SectionNodes :
       \E o \in {process_node(node, ip_pointer, ip_base, labels, line_no + 1)} :
          /\ ip_pointer' = o.pointer
          /\ ip_base' = o.base
          /\ labels' = o.tbl
          /\ code' = IF o.exc = "" THEN extend(code, o.items) ELSE code
          /\ phase' = IF o.exc = "" THEN "pass1" ELSE "exception"
    /\ line_no' = line_no + 1
    /\ UNCHANGED <<new_code, idx, ret, args, nops>>

SpecSections == Init /\ [][SectionStep]_vars

\* the section type of the SECTION item emitted last, NoText before the first
CurrentSection(list) ==
    IF LastSection(list, Len(list)) = 0 THEN NoText
    ELSE list[LastSection(list, Len(list))].node.body.toks[3]

\* C30: after any sequence of emissions inside a section S, IP.location is
\* within the address range of S, at most one past its last address.
C30_LocationWithinSection ==
    CurrentSection(code) # NoText =>
        /\ SectionStart(CurrentSection(code)) <= ip_pointer
        /\ ip_pointer <= SectionEnd(CurrentSection(code)) + 1

=============================================================================
